---- MODULE Spec2Model ----
(***************************************************************************)
(* Agent orchestration and delegation gateway.                             *)
(*                                                                         *)
(*   AgentApp.query       agents/app/agent_engine_app.py  (the facade)     *)
(*   call_remote_agent    agents/maestro/agent.py  (remote delegation)     *)
(*                                                                         *)
(* A query is a coroutine: the code between two awaits runs atomically,    *)
(* and every await (get_session, create_session, each event of run_async,  *)
(* the POST of a delegation) is a point where other coroutines and other   *)
(* replicas run.  One action models one such atomic stretch.               *)
(***************************************************************************)
EXTENDS Integers, Sequences, FiniteSets, TLC

\* ---------------------------------------------------------------- bounds
NumQueries == 2      \* query coroutines in flight over one run of the model
MaxEvents == 2       \* events of one turn / of one response body
MaxParts == 2        \* parts carried by all the events of one turn / body
NumCalls == 2        \* call_remote_agent coroutines in flight over one run
MaxAddrs == 2        \* comma-separated pieces of REMOTE_AGENT_ADDRESSES

\* ----------------------------------------------------------- Python values
None == "<None>"                       \* Python None, JSON null
Truthy(v) == v # None /\ v # ""        \* bool(v) of a str-or-None value

RECURSIVE Join(_, _)
\* sep.join(items)
Join(sep, items) ==
  IF items = <<>> THEN ""
  ELSE IF Len(items) = 1 THEN items[1]
  ELSE items[1] \o sep \o Join(sep, Tail(items))

\* sub in s
Contains(s, sub) ==
  \E i \in 1..(Len(s) - Len(sub) + 1) : SubSeq(s, i, i + Len(sub) - 1) = sub

RECURSIVE Split(_, _)
\* s.split(sep), sep one character
Split(s, sep) ==
  IF \A i \in 1..Len(s) : SubSeq(s, i, i) # sep THEN <<s>>
  ELSE LET i == CHOOSE i \in 1..Len(s) :
                  /\ SubSeq(s, i, i) = sep
                  /\ \A j \in 1..(i - 1) : SubSeq(s, j, j) # sep
       IN <<SubSeq(s, 1, i - 1)>> \o Split(SubSeq(s, i + 1, Len(s)), sep)

RECURSIVE RStrip(_, _)
\* s.rstrip(chars)
RStrip(s, chars) ==
  IF s # "" /\ SubSeq(s, Len(s), Len(s)) \in chars
    THEN RStrip(SubSeq(s, 1, Len(s) - 1), chars)
    ELSE s

RECURSIVE LStrip(_, _)
\* s.lstrip(chars)
LStrip(s, chars) ==
  IF s # "" /\ SubSeq(s, 1, 1) \in chars
    THEN LStrip(SubSeq(s, 2, Len(s)), chars)
    ELSE s

\* s.strip(): the white space of the model is the blank
Strip(s) == RStrip(LStrip(s, {" "}), {" "})

\* str(uuid.uuid4()): the n-th identifier generated, distinct from every other
Uuid4(n) == "uuid-" \o ToString(n)

SeqsUpTo(S, n) == UNION {[1..k -> S] : k \in 0..n}

\* ------------------------------------------------------------ turn events
Texts == {None, "", "A", "B"}          \* Part.text
\* An event of Runner.run_async: is_final_response(), and content, which is
\* None ("none"), a Content whose parts is None ("noparts"), or a Content
\* with a list of parts ("parts"); a part is modelled by its text.  The
\* content of an event that is not final is never read: few are enough.
Events ==
  {[final |-> FALSE, content |-> "none", parts |-> <<>>]}
  \cup {[final |-> FALSE, content |-> "parts", parts |-> <<t>>] : t \in Texts}
  \cup {[final |-> TRUE, content |-> c, parts |-> <<>>] : c \in {"none", "noparts"}}
  \cup {[final |-> TRUE, content |-> "parts", parts |-> ps] :
          ps \in SeqsUpTo(Texts, MaxParts)}
\* the events of the runs with several queries in flight
ThinEvents == {[final |-> TRUE, content |-> "parts", parts |-> <<"A">>]}
Failures == {"oracle fault"}           \* str(e) of an exception of the turn

RECURSIVE TotalParts(_)
TotalParts(evs) ==
  IF evs = <<>> THEN 0 ELSE Len(Head(evs).parts) + TotalParts(Tail(evs))

\* ------------------------------------------------------------------ state
VARIABLES
  runner,               \* self._runner: 0 is None, else the Runner built n-th
  built,                \* Runner objects constructed so far
  uuids,                \* uuid4() values generated so far
  store,                \* rows of the session database
  pc,                   \* where each query coroutine stands
  args,                 \* the arguments each query was called with
  ids,                  \* user_id and session_id after the defaults
  session,              \* the local variable session
  full_response_parts,  \* the local accumulator
  emitted,              \* events run_async has yielded to each query
  result,               \* the returned dict; <<>> while none
  trace,                \* awaits each query has issued, in order, then how the turn ended
  doneBefore,           \* queries that had returned with a session when q was called
  dpc,                  \* where each call_remote_agent coroutine stands
  dargs,                \* what each call was made with, and its tool's binding
  payload,              \* the request body each call has posted
  posts,                \* POSTs each call has issued
  remote,               \* events the specialist's turn has produced for each call
  response,             \* what came back from the network round trip
  dresult,              \* the dict each call returned; <<>> while none
  REMOTE_AGENT_ADDRESSES_STR,  \* the environment variable of the maestro module
  REMOTE_AGENT_ADDRESSES,      \* the module's list of addresses
  specialist_tools,     \* the module's list of delegation tools
  mpc                   \* where the import of the maestro module stands

facadeVars == <<runner, built, store, pc, args, ids, session,
                full_response_parts, emitted, result, trace, doneBefore>>
delegVars == <<dpc, dargs, payload, posts, remote, response, dresult>>
registryVars == <<REMOTE_AGENT_ADDRESSES_STR, REMOTE_AGENT_ADDRESSES,
                  specialist_tools, mpc>>
vars == <<facadeVars, uuids, delegVars, registryVars>>

Queries == 1..NumQueries
AppName == "maestro_agent"

NoArgs == [text |-> None, user_id |-> None, session_id |-> None]
NoIds == [user_id |-> None, session_id |-> None]
NoSession == [key |-> <<>>, creator |-> 0]

\* ---------------------------------------------------------- session store
\* DatabaseSessionService: one table whose primary key is
\* (app_name, user_id, id).
Rows(st, key) == {r \in st : r.key = key}
\* a lookup that finds no session
StoreGetAbsent(st, key) == NoSession
StoreGet(st, key) ==
  IF Rows(st, key) = {} THEN NoSession
  ELSE LET r == CHOOSE r \in Rows(st, key) : TRUE
       IN [key |-> r.key, creator |-> r.creator]
StoreConflict(st, key) == Rows(st, key) # {}
StoreCreate(st, key, q) == st \cup {[key |-> key, creator |-> q, turns |-> <<>>]}
StoreAppendTurn(st, key, q) ==
  {IF r.key = key THEN [r EXCEPT !.turns = Append(@, q)] ELSE r : r \in st}

\* ------------------------------------------------- remote delegation data
Calls == 1..NumCalls
Absent == "<absent>"                   \* a key the JSON object does not have

\* The closure of one tool of make_remote_agent_tool: agent_name, agent_url.
ToolBindings ==
  {[agent_name |-> "nutrition-expert-service",
    agent_url |-> "http://nutrition-expert-service"],
   [agent_name |-> "life-coach-service",
    agent_url |-> "http://life-coach-service"]}

\* What call_remote_agent is given of tool_context.invocation_context: the
\* user id and the session of the turn that invoked the tool; turn is the
\* query whose turn it is, 0 when the caller is not modelled.
NoContext == [user_id |-> "", session_id |-> "", turn |-> 0]
NoCall == [agent_name |-> "", agent_url |-> "", query |-> "",
           tool_context |-> NoContext]
NoPayload == [url |-> "", app_name |-> "", user_id |-> "", session_id |-> "",
              new_message |-> [role |-> "", parts |-> <<>>], streaming |-> FALSE]

\* One element of the JSON array of a /run response.  kind "other" is an
\* element that is no object.  is_final_response is absent or true;
\* content is absent, null, an object without parts ("noparts"), an object
\* whose parts is null ("nullparts"), or an object with a list of parts; a
\* part is modelled by the value of its text key.  The content of an element
\* that is not final is never read: few of those are enough.
JsonTexts == {Absent, None, "", "ok", "B"}
JsonEvents ==
  {[kind |-> "other", is_final_response |-> "absent", content |-> "absent",
    parts |-> <<>>]}
  \cup {[kind |-> "dict", is_final_response |-> "absent", content |-> c,
         parts |-> <<>>] : c \in {"absent", "null"}}
  \cup {[kind |-> "dict", is_final_response |-> "absent", content |-> "parts",
         parts |-> <<t>>] : t \in JsonTexts}
  \cup {[kind |-> "dict", is_final_response |-> "true", content |-> c,
         parts |-> <<>>] : c \in {"absent", "null", "noparts", "nullparts"}}
  \cup {[kind |-> "dict", is_final_response |-> "true", content |-> "parts",
         parts |-> ps] : ps \in SeqsUpTo(JsonTexts, MaxParts)}

\* What the network round trip of client.post ends with: an exception of
\* httpx (kind is its class), or an HTTP response with its status code, its
\* text, and what response.json() makes of the body: "invalid" (it raises),
\* "null", or "list" with the events.
StatusCodes == {200, 302, 404, 500}
ErrorTexts == {"boom"}
NoResponse == [kind |-> "none", status_code |-> 0, text |-> "",
               json |-> "invalid", events |-> <<>>]
\* the faults of a client that has no timeout
TransportFaultsWithoutTimeout ==
  {[kind |-> k, status_code |-> 0, text |-> "", json |-> "invalid",
    events |-> <<>>] : k \in {"ConnectError"}}
\* the faults of httpx.AsyncClient(timeout=120.0)
TransportFaults ==
  {[kind |-> k, status_code |-> 0, text |-> "", json |-> "invalid",
    events |-> <<>>] : k \in {"ReadTimeout", "ConnectError"}}
\* the responses a specialist whose turn has produced these events may send
HttpResponses(events) ==
  {[kind |-> "http", status_code |-> sc, text |-> t, json |-> "invalid",
    events |-> <<>>] : sc \in StatusCodes, t \in ErrorTexts}
  \cup {[kind |-> "http", status_code |-> 200, text |-> "", json |-> "null",
         events |-> <<>>]}
  \cup {[kind |-> "http", status_code |-> 200, text |-> "", json |-> "list",
         events |-> events]}

\* ------------------------------------------------- specialist registry
\* the keys of specialist_agent_info
specialist_agent_info ==
  {"nutrition-expert-service", "life-coach-service",
   "community-connector-service"}

\* url.split("/")[-1].split(".")[0]
agent_name_from_url(url) ==
  LET last == Split(url, "/")[Len(Split(url, "/"))]
  IN Split(last, ".")[1]

\* a test that lets every inferred name through
InTableAlways(name) == TRUE
\* agent_name_from_url in specialist_agent_info
InTable(name) == name \in specialist_agent_info

RECURSIVE StrippedPieces(_)
\* the list comprehension over the pieces of the split, in order
StrippedPieces(pieces) ==
  IF pieces = <<>> THEN <<>>
  ELSE (IF Strip(Head(pieces)) # ""
          THEN <<RStrip(Strip(Head(pieces)), {"/"})>>
          ELSE <<>>) \o StrippedPieces(Tail(pieces))

\* REMOTE_AGENT_ADDRESSES, from the value of the environment variable
Addresses(str) == StrippedPieces(Split(str, ","))

RECURSIVE SpecialistTools(_)
\* The for loop over the addresses: a tool, modelled by the agent_name and
\* agent_url its closure binds, is appended for an address whose inferred
\* name is a key of the table.
SpecialistTools(urls) ==
  IF urls = <<>> THEN <<>>
  ELSE (IF InTable(agent_name_from_url(Head(urls)))
          THEN <<[agent_name |-> agent_name_from_url(Head(urls)),
                  agent_url |-> Head(urls)]>>
          ELSE <<>>) \o SpecialistTools(Tail(urls))

\* the pieces a value of REMOTE_AGENT_ADDRESSES is made of, between commas
AddressPieces ==
  {"http://nutrition-expert-service",
   " https://life-coach-service.a.run.app/ ",
   "http://community-connector-service",
   "http://unknown-service",
   "http://life-coach-service:8080",
   "/",
   ""}
\* the values of the environment variable
Environments == {Join(",", ps) : ps \in SeqsUpTo(AddressPieces, MaxAddrs)}
\* the value the deployment of the two specialists of this repository sets
DeployedAddresses == "http://nutrition-expert-service,http://life-coach-service"

\* ------------------------------------------------------------------- Init
\* the facade and the delegation calls, none of them started
Idle ==
  /\ runner = 0
  /\ built = 0
  /\ uuids = 0
  /\ store = {}
  /\ pc = [q \in Queries |-> "idle"]
  /\ args = [q \in Queries |-> NoArgs]
  /\ ids = [q \in Queries |-> NoIds]
  /\ session = [q \in Queries |-> NoSession]
  /\ full_response_parts = [q \in Queries |-> <<>>]
  /\ emitted = [q \in Queries |-> <<>>]
  /\ result = [q \in Queries |-> <<>>]
  /\ trace = [q \in Queries |-> <<>>]
  /\ doneBefore = [q \in Queries |-> {}]
  /\ dpc = [c \in Calls |-> "idle"]
  /\ dargs = [c \in Calls |-> NoCall]
  /\ payload = [c \in Calls |-> NoPayload]
  /\ posts = [c \in Calls |-> 0]
  /\ remote = [c \in Calls |-> <<>>]
  /\ response = [c \in Calls |-> NoResponse]
  /\ dresult = [c \in Calls |-> <<>>]

\* the maestro module is imported, the facade is constructed
Init ==
  /\ Idle
  /\ REMOTE_AGENT_ADDRESSES_STR = DeployedAddresses
  /\ REMOTE_AGENT_ADDRESSES = Addresses(DeployedAddresses)
  /\ specialist_tools = SpecialistTools(Addresses(DeployedAddresses))
  /\ mpc = "done"

\* the maestro module is about to be imported, under some environment
RegistryInit ==
  /\ Idle
  /\ REMOTE_AGENT_ADDRESSES_STR \in Environments
  /\ REMOTE_AGENT_ADDRESSES = <<>>
  /\ specialist_tools = <<>>
  /\ mpc = "start"

\* ---------------------------------------------------------------- set_up
\* a set_up that builds a Runner at every call
SetUpRebuilds ==
  /\ runner' = built + 1
  /\ built' = built + 1
  /\ UNCHANGED <<uuids, store, pc, args, ids, session, full_response_parts,
                 emitted, result, trace, doneBefore>>
  /\ UNCHANGED delegVars
  /\ UNCHANGED registryVars
\* AgentApp.set_up: builds the Runner if there is none.
SetUp ==
  /\ runner' = IF runner = 0 THEN built + 1 ELSE runner
  /\ built' = IF runner = 0 THEN built + 1 ELSE built
  /\ UNCHANGED <<uuids, store, pc, args, ids, session, full_response_parts,
                 emitted, result, trace, doneBefore>>
  /\ UNCHANGED delegVars
  /\ UNCHANGED registryVars
\* ----------------------------------------------------------------- query
\* a validation that lets the empty string through
MissingTextNoneOnly(text) == text = None
\* not text
MissingText(text) == ~Truthy(text)

\* the triple get_session is called with
GetKey(q) == <<AppName, ids[q].user_id, ids[q].session_id>>
\* create_session called with user_id and session_id swapped
CreateKeySwapped(q) == <<AppName, ids[q].session_id, ids[q].user_id>>
\* the triple create_session is called with
CreateKey(q) == <<AppName, ids[q].user_id, ids[q].session_id>>

\* a lookup whose result is ignored: every call creates
NotSessionAlways(s) == TRUE
\* not session
NotSession(s) == s = NoSession
\* a default that discards the caller's value
DefaultIdAlwaysFresh(v, n) == Uuid4(n)
\* v or str(uuid.uuid4()), the uuid being the n-th generated
DefaultId(v, n) == IF Truthy(v) THEN v ELSE Uuid4(n)
MissingTextError == "Input 'text' is missing from the query."
ExecutionError(e) == "An error occurred during agent execution: " \o e

\* query, from the call to the first await: set_up when there is no runner,
\* input validation, the identifier defaults, then get_session is awaited.
Query(q, text, user_id, session_id) ==
  /\ pc[q] = "idle"
  /\ runner' = IF runner = 0 THEN built + 1 ELSE runner
  /\ built' = IF runner = 0 THEN built + 1 ELSE built
  /\ args' = [args EXCEPT ![q] =
                [text |-> text, user_id |-> user_id, session_id |-> session_id]]
  /\ doneBefore' = [doneBefore EXCEPT ![q] =
                {p \in Queries : pc[p] = "returned" /\ session[p] # NoSession}]
  /\ IF MissingText(text)
       THEN /\ result' = [result EXCEPT ![q] = [error |-> MissingTextError]]
            /\ pc' = [pc EXCEPT ![q] = "returned"]
            /\ UNCHANGED <<uuids, ids, trace>>
       ELSE LET n1 == IF Truthy(user_id) THEN uuids ELSE uuids + 1
                uid == DefaultId(user_id, n1)
                n2 == IF Truthy(session_id) THEN n1 ELSE n1 + 1
                sid == DefaultId(session_id, n2)
            IN /\ uuids' = n2
               /\ ids' = [ids EXCEPT ![q] = [user_id |-> uid, session_id |-> sid]]
               /\ trace' = [trace EXCEPT ![q] = Append(@, "get_session")]
               /\ pc' = [pc EXCEPT ![q] = "get"]
               /\ UNCHANGED result
  /\ UNCHANGED <<store, session, full_response_parts, emitted>>
  /\ UNCHANGED delegVars
  /\ UNCHANGED registryVars
\* The exception of an await that no handler of query catches leaves query.
Raise(q) ==
  /\ pc' = [pc EXCEPT ![q] = "raised"]
  /\ UNCHANGED <<runner, built, uuids, store, args, ids, session,
                 full_response_parts, emitted, result, trace, doneBefore>>
  /\ UNCHANGED delegVars
  /\ UNCHANGED registryVars
\* get_session fails: the database cannot be reached.
GetSessionUnavailable(q) ==
  /\ pc[q] = "get"
  /\ Raise(q)

\* get_session returns; on absence create_session is awaited.
GetSession(q) ==
  /\ pc[q] = "get"
  /\ LET s == StoreGet(store, GetKey(q))
     IN /\ session' = [session EXCEPT ![q] = s]
        /\ IF NotSession(s)
             THEN /\ trace' = [trace EXCEPT ![q] = Append(@, "create_session")]
                  /\ pc' = [pc EXCEPT ![q] = "create"]
             ELSE /\ pc' = [pc EXCEPT ![q] = "run"]
                  /\ UNCHANGED trace
  /\ UNCHANGED <<runner, built, uuids, store, args, ids, full_response_parts,
                 emitted, result, doneBefore>>
  /\ UNCHANGED delegVars
  /\ UNCHANGED registryVars
\* create_session fails: the database cannot be reached.
CreateSessionUnavailable(q) ==
  /\ pc[q] = "create"
  /\ Raise(q)

\* create_session returns the new row, or fails on the primary key when a
\* row of the triple is there already.
CreateSession(q) ==
  /\ pc[q] = "create"
  /\ IF StoreConflict(store, CreateKey(q))
       THEN Raise(q)
       ELSE /\ store' = StoreCreate(store, CreateKey(q), q)
            /\ session' = [session EXCEPT ![q] =
                             [key |-> CreateKey(q), creator |-> q]]
            /\ pc' = [pc EXCEPT ![q] = "run"]
            /\ UNCHANGED <<runner, built, uuids, args, ids, full_response_parts,
                           emitted, result, trace, doneBefore>>
            /\ UNCHANGED delegVars
            /\ UNCHANGED registryVars
\* a turn run on whichever session the store holds
RunKeyAnyRow(q) ==
  IF store = {} THEN <<AppName, ids[q].user_id, session[q].key[3]>>
  ELSE (CHOOSE r \in store : TRUE).key
\* the session run_async is called on: user_id=user_id, session_id=session.id
RunKey(q) == <<AppName, ids[q].user_id, session[q].key[3]>>

\* self._runner.run_async(session_id=session.id, user_id=user_id, ...): the
\* turn starts on the session of that id; the Runner appends to its history.
RunnerStart(q) ==
  /\ pc[q] = "run"
  /\ store' = StoreAppendTurn(store, RunKey(q), q)
  /\ trace' = [trace EXCEPT ![q] = Append(@, "run_async")]
  /\ pc' = [pc EXCEPT ![q] = "iter"]
  /\ UNCHANGED <<runner, built, uuids, args, ids, session, full_response_parts,
                 emitted, result, doneBefore>>
  /\ UNCHANGED delegVars
  /\ UNCHANGED registryVars
\* a filter that forgets the final-response flag
QualifiesAnyEvent(event) == event.content = "parts" /\ event.parts # <<>>
\* event.is_final_response() and getattr(event, "content", None)
\*   and event.content.parts
Qualifies(event) ==
  event.final /\ event.content = "parts" /\ event.parts # <<>>

\* a body that takes the text of every part
AccumulateAllParts(acc, event) ==
  IF Qualifies(event)
    THEN acc \o SelectSeq(event.parts, LAMBDA t : Truthy(t))
    ELSE acc
\* the body of the async for, on one event
Accumulate(acc, event) ==
  IF Qualifies(event) /\ Truthy(event.parts[1])
    THEN Append(acc, event.parts[1])
    ELSE acc

\* run_async yields one event.
RunnerYield(q, event) ==
  /\ pc[q] = "iter"
  /\ Len(emitted[q]) < MaxEvents
  /\ TotalParts(emitted[q]) + Len(event.parts) <= MaxParts
  /\ emitted' = [emitted EXCEPT ![q] = Append(@, event)]
  /\ full_response_parts' =
       [full_response_parts EXCEPT ![q] = Accumulate(@, event)]
  /\ UNCHANGED <<runner, built, uuids, store, pc, args, ids, session, result,
                 trace, doneBefore>>
  /\ UNCHANGED delegVars
  /\ UNCHANGED registryVars
\* an except clause that hands back what was accumulated so far
ErrorEnvelopeWithPartial(q, e) ==
  [error |-> ExecutionError(e), response |-> Join("", full_response_parts[q])]
\* the dict returned by the except clause of the turn
ErrorEnvelope(q, e) == [error |-> ExecutionError(e)]

\* run_async raises: the except clause returns the error envelope.
RunnerRaise(q, e) ==
  /\ pc[q] = "iter"
  /\ result' = [result EXCEPT ![q] = ErrorEnvelope(q, e)]
  /\ trace' = [trace EXCEPT ![q] = Append(@, "raised")]
  /\ pc' = [pc EXCEPT ![q] = "returned"]
  /\ UNCHANGED <<runner, built, uuids, store, args, ids, session,
                 full_response_parts, emitted, doneBefore>>
  /\ UNCHANGED delegVars
  /\ UNCHANGED registryVars
\* run_async is exhausted: the success envelope is returned.
RunnerExhausted(q) ==
  /\ pc[q] = "iter"
  /\ result' = [result EXCEPT ![q] =
                  [response |-> Join("", full_response_parts[q]),
                   session_id |-> session[q].key[3],
                   user_id |-> ids[q].user_id]]
  /\ trace' = [trace EXCEPT ![q] = Append(@, "exhausted")]
  /\ pc' = [pc EXCEPT ![q] = "returned"]
  /\ UNCHANGED <<runner, built, uuids, store, args, ids, session,
                 full_response_parts, emitted, doneBefore>>
  /\ UNCHANGED delegVars
  /\ UNCHANGED registryVars
\* ----------------------------------------------------- call_remote_agent
\* response.is_success, which raise_for_status tests
IsSuccess(status_code) == status_code \in 200..299

\* The exception one event makes the generator of the join raise; "" if none.
EventFault(event) ==
  IF event.kind # "dict" THEN "AttributeError"
  ELSE IF event.is_final_response # "true" THEN ""
  ELSE IF event.content = "null" THEN "AttributeError"
  ELSE IF event.content = "nullparts" THEN "TypeError"
  ELSE ""

\* part.get("text", "") for part in event.get("content", {}).get("parts", [])
EventTexts(event) ==
  IF event.is_final_response = "true" /\ event.content = "parts"
    THEN [i \in 1..Len(event.parts) |->
            IF event.parts[i] = Absent THEN "" ELSE event.parts[i]]
    ELSE <<>>

RECURSIVE FlatTexts(_)
\* the items the generator yields, over the events in order
FlatTexts(events) ==
  IF events = <<>> THEN <<>>
  ELSE EventTexts(Head(events)) \o FlatTexts(Tail(events))

\* The exception the statement of lines 58-62 raises; "" if none.  join
\* exhausts the generator first, then rejects an item that is no str.
JoinFault(events) ==
  IF \E i \in 1..Len(events) : EventFault(events[i]) # ""
    THEN EventFault(events[CHOOSE i \in 1..Len(events) :
                             /\ EventFault(events[i]) # ""
                             /\ \A j \in 1..(i - 1) : EventFault(events[j]) = ""])
  ELSE IF \E i \in 1..Len(FlatTexts(events)) : FlatTexts(events)[i] = None
    THEN "TypeError"
  ELSE ""

final_response_text(events) == Join(" ", FlatTexts(events))

NoFinalTextMessage == "Remote agent did not return a final text response."

\* a reply that does not test the text
ReplyAlwaysSuccess(text) == [status |-> "success", response |-> text]
\* the dict returned once the text is joined
Reply(text) ==
  IF ~Truthy(text)
    THEN [status |-> "error", message |-> NoFinalTextMessage]
    ELSE [status |-> "success", response |-> text]

\* The exception the body of the try raises on this round trip; "" if none.
TryFault(resp) ==
  IF resp.kind # "http" THEN resp.kind
  ELSE IF ~IsSuccess(resp.status_code) THEN "HTTPStatusError"
  ELSE IF resp.json = "invalid" THEN "JSONDecodeError"
  ELSE IF resp.json = "null" THEN "TypeError"
  ELSE JoinFault(resp.events)

\* handlers that take the faults of the transport only
HandlerTransportOnly(fault) ==
  IF fault = "HTTPStatusError" THEN "HTTPStatusError"
  ELSE IF fault \in {"ReadTimeout", "ConnectError"} THEN "Exception"
  ELSE ""
\* the except clause that takes the exception: "" when none does
Handler(fault) ==
  IF fault = "HTTPStatusError" THEN "HTTPStatusError" ELSE "Exception"

HttpErrorMessage(agent_name, resp) ==
  "HTTP error calling '" \o agent_name \o "': "
     \o ToString(resp.status_code) \o " - " \o resp.text

UnexpectedMessage(agent_name, fault) ==
  "An unexpected error occurred when calling '" \o agent_name \o "': " \o fault

\* a sub-session that reuses the session of the invoking turn
SubSessionOfParent(tool_context, n) == tool_context.session_id
\* sub_session_id = str(uuid.uuid4()), the uuid being the n-th generated
SubSession(tool_context, n) == Uuid4(n)

\* handlers that post again after a timeout
RetriedOnTimeout(fault) == fault = "ReadTimeout"
\* Whether the call posts again after this fault of the try block: no
\* handler does, each returns.
Retried(fault) == FALSE

\* call_remote_agent, from the call to the await of client.post: the
\* payload with a fresh sub-session id is posted to {agent_url}/run.
CallRemoteAgent(c, tool, query, tool_context) ==
  /\ dpc[c] = "idle"
  /\ uuids' = uuids + 1
  /\ dargs' = [dargs EXCEPT ![c] =
        [agent_name |-> tool.agent_name, agent_url |-> tool.agent_url,
         query |-> query, tool_context |-> tool_context]]
  /\ payload' = [payload EXCEPT ![c] =
        [url |-> tool.agent_url \o "/run",
         app_name |-> tool.agent_name,
         user_id |-> tool_context.user_id,
         session_id |-> SubSession(tool_context, uuids + 1),
         new_message |-> [role |-> "user", parts |-> <<[text |-> query]>>],
         streaming |-> FALSE]]
  /\ posts' = [posts EXCEPT ![c] = @ + 1]
  /\ dpc' = [dpc EXCEPT ![c] = "posted"]
  /\ UNCHANGED <<remote, response, dresult>>
  /\ UNCHANGED facadeVars
  /\ UNCHANGED registryVars
\* The specialist, running the turn the POST asked for, produces one more
\* event of its response body.
SpecialistEmits(c, event) ==
  /\ dpc[c] = "posted"
  /\ Len(remote[c]) < MaxEvents
  /\ TotalParts(remote[c]) + Len(event.parts) <= MaxParts
  /\ remote' = [remote EXCEPT ![c] = Append(@, event)]
  /\ UNCHANGED <<uuids, dpc, dargs, payload, posts, response, dresult>>
  /\ UNCHANGED facadeVars
  /\ UNCHANGED registryVars
\* call_remote_agent, from the end of the round trip to its return.
Finish(c, resp) ==
  /\ dpc[c] = "posted"
  /\ response' = [response EXCEPT ![c] = resp]
  /\ remote' = [remote EXCEPT ![c] = <<>>]
  /\ LET fault == TryFault(resp)
         name == dargs[c].agent_name
     IN IF fault = ""
          THEN /\ dresult' = [dresult EXCEPT ![c] =
                                Reply(final_response_text(resp.events))]
               /\ dpc' = [dpc EXCEPT ![c] = "returned"]
               /\ UNCHANGED posts
        ELSE IF Retried(fault)
          THEN /\ posts' = [posts EXCEPT ![c] = @ + 1]
               /\ UNCHANGED <<dpc, dresult>>
        ELSE IF Handler(fault) = "HTTPStatusError"
          THEN /\ dresult' = [dresult EXCEPT ![c] =
                    [status |-> "error", message |-> HttpErrorMessage(name, resp)]]
               /\ dpc' = [dpc EXCEPT ![c] = "returned"]
               /\ UNCHANGED posts
        ELSE IF Handler(fault) = "Exception"
          THEN /\ dresult' = [dresult EXCEPT ![c] =
                    [status |-> "error", message |-> UnexpectedMessage(name, fault)]]
               /\ dpc' = [dpc EXCEPT ![c] = "returned"]
               /\ UNCHANGED posts
        ELSE /\ dpc' = [dpc EXCEPT ![c] = "raised"]
             /\ UNCHANGED <<dresult, posts>>
  /\ UNCHANGED <<uuids, dargs, payload>>
  /\ UNCHANGED facadeVars
  /\ UNCHANGED registryVars
\* client.post raises: the timeout of 120 s has passed, or no connection.
PostFails(c) ==
  /\ dpc[c] = "posted"
  /\ \E resp \in TransportFaults : Finish(c, resp)

\* client.post returns an HTTP response.
PostReturns(c) ==
  /\ dpc[c] = "posted"
  /\ \E resp \in HttpResponses(remote[c]) : Finish(c, resp)

\* The timeout of the client passes on a round trip that has not ended:
\* the step of PostFails that httpx.AsyncClient(timeout=120.0) guarantees.
TimesOut(c) ==
  /\ dpc[c] = "posted"
  /\ \E resp \in TransportFaults : resp.kind = "ReadTimeout" /\ Finish(c, resp)

\* what call_remote_agent reads of the context of the turn of query q
ToolContext(q) ==
  [user_id |-> ids[q].user_id, session_id |-> session[q].key[3], turn |-> q]

\* The reasoning of the turn of query q invokes a tool of the registry.
ToolCall(q, c, tool, query) ==
  /\ pc[q] = "iter"
  /\ CallRemoteAgent(c, tool, query, ToolContext(q))

\* ------------------------------------------- import of the maestro module
\* The module reads and splits the environment variable; it raises
\* ValueError when no address is left.
ReadAddresses ==
  /\ mpc = "start"
  /\ REMOTE_AGENT_ADDRESSES' = Addresses(REMOTE_AGENT_ADDRESSES_STR)
  /\ mpc' = IF Addresses(REMOTE_AGENT_ADDRESSES_STR) = <<>>
              THEN "raised" ELSE "read"
  /\ UNCHANGED <<REMOTE_AGENT_ADDRESSES_STR, specialist_tools>>
  /\ UNCHANGED <<facadeVars, uuids, delegVars>>

\* The module builds specialist_tools, which root_agent is constructed with.
BuildTools ==
  /\ mpc = "read"
  /\ specialist_tools' = SpecialistTools(REMOTE_AGENT_ADDRESSES)
  /\ mpc' = "done"
  /\ UNCHANGED <<REMOTE_AGENT_ADDRESSES_STR, REMOTE_AGENT_ADDRESSES>>
  /\ UNCHANGED <<facadeVars, uuids, delegVars>>

\* -------------------------------------------------------- specifications
QueryTexts == {None, "", "hi"}
UserIds == {None, "u1"}
SessionIds == {None, "", "s1"}
\* the arguments of the runs with several queries in flight
ThinTexts == {None, "", "hi"}
ThinUserIds == {"u1"}
ThinSessionIds == {None, "s1"}

\* Several queries in flight, on one store.
Next ==
  \/ SetUp
  \/ \E q \in Queries, text \in ThinTexts, u \in ThinUserIds,
          s \in ThinSessionIds : Query(q, text, u, s)
  \/ \E q \in Queries : GetSessionUnavailable(q)
  \/ \E q \in Queries : GetSession(q)
  \/ \E q \in Queries : CreateSessionUnavailable(q)
  \/ \E q \in Queries : CreateSession(q)
  \/ \E q \in Queries : RunnerStart(q)
  \/ \E q \in Queries, event \in ThinEvents : RunnerYield(q, event)
  \/ \E q \in Queries, e \in Failures : RunnerRaise(q, e)
  \/ \E q \in Queries : RunnerExhausted(q)

Spec == Init /\ [][Next]_vars

\* One query, and every event sequence of the turn.
TurnNext ==
  \/ SetUp
  \/ \E text \in QueryTexts, u \in UserIds, s \in SessionIds :
       Query(1, text, u, s)
  \/ GetSessionUnavailable(1)
  \/ GetSession(1)
  \/ CreateSessionUnavailable(1)
  \/ CreateSession(1)
  \/ RunnerStart(1)
  \/ \E event \in Events : RunnerYield(1, event)
  \/ \E e \in Failures : RunnerRaise(1, e)
  \/ RunnerExhausted(1)

TurnSpec == Init /\ [][TurnNext]_vars

\* One delegation call, and every outcome of its round trip.
ToolContexts == {[user_id |-> "u1", session_id |-> "s1", turn |-> 0]}
CallQueries == {"what to eat"}
DelegNext ==
  \/ \E tool \in ToolBindings, query \in CallQueries, tc \in ToolContexts :
       CallRemoteAgent(1, tool, query, tc)
  \/ \E event \in JsonEvents : SpecialistEmits(1, event)
  \/ PostFails(1)
  \/ PostReturns(1)

DelegSpec == Init /\ [][DelegNext]_vars

\* The same call, on a client whose timeout ends every round trip that
\* nothing else ends.
LiveSpec == DelegSpec /\ \A c \in Calls : WF_vars(TimesOut(c))

\* the events of the runs with several calls in flight
ThinJsonEvents ==
  {[kind |-> "dict", is_final_response |-> "true", content |-> "parts",
    parts |-> <<"ok">>]}

\* the tool and the query text of those runs
ThinToolBindings ==
  {[agent_name |-> "nutrition-expert-service",
    agent_url |-> "http://nutrition-expert-service"]}
TurnTexts == {"hi"}

\* One query whose turn invokes a tool several times, the calls in flight
\* together.
CallsNext ==
  \/ \E text \in TurnTexts, u \in ThinUserIds, s \in ThinSessionIds :
       Query(1, text, u, s)
  \/ GetSession(1)
  \/ CreateSession(1)
  \/ RunnerStart(1)
  \/ \E event \in ThinEvents : RunnerYield(1, event)
  \/ RunnerExhausted(1)
  \/ \E c \in Calls, tool \in ThinToolBindings, query \in CallQueries :
       ToolCall(1, c, tool, query)
  \/ \E c \in Calls, event \in ThinJsonEvents : SpecialistEmits(c, event)
  \/ \E c \in Calls : PostFails(c)
  \/ \E c \in Calls : PostReturns(c)

CallsSpec == Init /\ [][CallsNext]_vars

\* The import of the maestro module, under every environment.
RegistryNext ==
  \/ ReadAddresses
  \/ BuildTools

RegistrySpec == RegistryInit /\ [][RegistryNext]_vars

\* ================================================================ claims
Last(seq) == IF seq = <<>> THEN "" ELSE seq[Len(seq)]
Has(seq, x) == \E i \in 1..Len(seq) : seq[i] = x
\* the triple a query addresses
Triple(q) == <<AppName, ids[q].user_id, ids[q].session_id>>
\* the query has a session to run its turn on
Resolved(q) == Has(trace[q], "run_async") \/ pc[q] = "run"

\* C1: query never raises past the facade: whatever fails after input
\* validation (the store unreachable during get or create, the Runner),
\* the caller gets an {"error": ...} envelope and no exception.
C1_NeverRaises == \A q \in Queries : pc[q] # "raised"

\* C2: when queries for one triple interleave while the session does not
\* exist, the store holds one row per triple, every query that got a
\* session holds that row, and a triple some query resolved has exactly one.
C2_OneSessionPerTriple ==
  /\ \A r1, r2 \in store : r1.key = r2.key => r1 = r2
  /\ \A q \in Queries : Resolved(q) =>
       /\ Cardinality({r \in store : r.key = Triple(q)}) = 1
       /\ \E r \in store : r.key = Triple(q) /\ r.creator = session[q].creator
                           /\ session[q].key = Triple(q)

\* Two queries of one triple both saw the session absent and both called
\* create_session; one got the session, the other did not.
C2_Witness ==
  \E q1, q2 \in Queries :
    /\ q1 # q2
    /\ pc[q1] \notin {"idle", "get", "create"}
    /\ pc[q2] \notin {"idle", "get", "create"}
    /\ Triple(q1) = Triple(q2)
    /\ Has(trace[q1], "create_session") /\ Has(trace[q2], "create_session")
    /\ Resolved(q1) /\ ~Resolved(q2)

\* C3: a query called, with the same user_id and session_id, after another
\* has returned with its session never calls create_session and runs its
\* turn on that same session: create is called at most once over the two.
C3_SecondCallReuses ==
  \A q2 \in Queries : \A q1 \in doneBefore[q2] :
    ( /\ Truthy(args[q1].user_id) /\ Truthy(args[q1].session_id)
      /\ args[q2].user_id = args[q1].user_id
      /\ args[q2].session_id = args[q1].session_id
      /\ ~MissingText(args[q2].text) )
    => /\ ~Has(trace[q2], "create_session")
       /\ Cardinality({q \in {q1, q2} : Has(trace[q], "create_session")}) <= 1
       /\ Has(trace[q2], "run_async") => session[q2] = session[q1]

\* The second of two such calls has run its turn on the session the first
\* one created, and returned its answer.
C3_Witness ==
  \E q2 \in Queries : \E q1 \in doneBefore[q2] :
    /\ Truthy(args[q1].session_id)
    /\ args[q2] = args[q1]
    /\ session[q1].creator = q1
    /\ session[q2] = session[q1]
    /\ Last(trace[q2]) = "exhausted"

\* the text an event gives to the answer: that of its first part
EventText(event) == event.parts[1]
\* the final-response events with content, at least one part, and a text
Answering(events) ==
  SelectSeq(events, LAMBDA ev : /\ ev.final
                                /\ ev.content = "parts"
                                /\ Len(ev.parts) >= 1
                                /\ EventText(ev) \notin {None, ""})
RECURSIVE Concat(_)
Concat(events) ==
  IF events = <<>> THEN "" ELSE EventText(Head(events)) \o Concat(Tail(events))

\* C4: when the Runner's sequence ends without error, query returns a
\* success envelope whose response is the texts of the final-response
\* events with content, in emission order, with no separator: "A" then "B"
\* give "AB", no such event gives "", and no other event contributes.
C4_ResponseIsConcatenation ==
  \A q \in Queries : Last(trace[q]) = "exhausted" =>
    /\ pc[q] = "returned"
    /\ DOMAIN result[q] = {"response", "session_id", "user_id"}
    /\ result[q].response = Concat(Answering(emitted[q]))

\* Two final events "A" then "B" were reduced to "AB".
C4_Witness ==
  \E q \in Queries :
    /\ Last(trace[q]) = "exhausted"
    /\ emitted[q] = <<[final |-> TRUE, content |-> "parts", parts |-> <<"A">>],
                      [final |-> TRUE, content |-> "parts", parts |-> <<"B">>]>>
    /\ result[q].response = "AB"

\* C5: when the Runner's sequence raises, query returns the error envelope
\* with the failure description and nothing else: no response key, none of
\* the text accumulated before the error.
C5_AllOrNothing ==
  \A q \in Queries : Last(trace[q]) = "raised" =>
    /\ pc[q] = "returned"
    /\ DOMAIN result[q] = {"error"}
    /\ \E e \in Failures :
         result[q].error = "An error occurred during agent execution: " \o e

\* The sequence raised after a final-response text had been accumulated.
C5_Witness ==
  \E q \in Queries :
    /\ Last(trace[q]) = "raised"
    /\ full_response_parts[q] # <<>>
    /\ DOMAIN result[q] = {"error"}

\* C6: a query whose text is missing or empty returns exactly the input
\* error, has awaited neither get_session nor create_session nor a turn,
\* and no row of the store is of its making.
C6_MissingTextTouchesNothing ==
  \A q \in Queries : (pc[q] # "idle" /\ args[q].text \in {None, ""}) =>
    /\ pc[q] = "returned"
    /\ result[q] = [error |-> "Input 'text' is missing from the query."]
    /\ trace[q] = <<>>
    /\ session[q] = NoSession
    /\ \A r \in store : r.creator # q /\ ~Has(r.turns, q)

\* query(text="") has returned the input error while a session of another
\* query is in the store.
C6_Witness ==
  \E q \in Queries :
    /\ pc[q] = "returned"
    /\ args[q].text = ""
    /\ result[q] = [error |-> "Input 'text' is missing from the query."]
    /\ store # {}

\* a response body the client cannot read as events with parts with texts
Malformed(resp) ==
  \/ resp.json \in {"invalid", "null"}
  \/ \E i \in 1..Len(resp.events) :
       LET ev == resp.events[i]
       IN \/ ev.kind # "dict"
          \/ /\ ev.is_final_response = "true"
             /\ \/ ev.content \in {"null", "nullparts"}
                \/ \E j \in 1..Len(ev.parts) : ev.parts[j] = None
NonSuccessStatus(resp) ==
  resp.kind = "http" /\ (resp.status_code < 200 \/ resp.status_code > 299)
ErrorValue(d) ==
  DOMAIN d = {"status", "message"} /\ d.status = "error" /\ d.message # ""
SuccessValue(d) ==
  DOMAIN d = {"status", "response"} /\ d.status = "success" /\ d.response # ""

\* C7: no outcome of the round trip leaves call_remote_agent as an
\* exception: a non-2xx status, a timeout, a transport fault, an unparsable
\* or malformed body all give {status: error, message}, and for a non-2xx
\* status the message contains the status code.
C7_NeverEscapes ==
  \A c \in Calls :
    /\ dpc[c] # "raised"
    /\ (dpc[c] = "returned" /\
          (response[c].kind # "http" \/ NonSuccessStatus(response[c])
             \/ Malformed(response[c])))
       => ErrorValue(dresult[c])
    /\ (dpc[c] = "returned" /\ NonSuccessStatus(response[c]))
       => Contains(dresult[c].message, ToString(response[c].status_code))

\* HTTP 500 came back and the call returned an error naming 500.
C7_Witness ==
  \E c \in Calls :
    /\ dpc[c] = "returned"
    /\ response[c].kind = "http" /\ response[c].status_code = 500
    /\ ErrorValue(dresult[c])
    /\ Contains(dresult[c].message, "500")

\* the 2xx responses whose body is an array the client reads without fault
WellFormed(resp) ==
  resp.kind = "http" /\ ~NonSuccessStatus(resp) /\ ~Malformed(resp)
RECURSIVE PartTexts(_)
\* the texts of the parts that have one, in order
PartTexts(parts) ==
  IF parts = <<>> THEN <<>>
  ELSE (IF Head(parts) = Absent THEN <<>> ELSE <<Head(parts)>>)
         \o PartTexts(Tail(parts))
RECURSIVE FinalTexts(_)
\* the same over the final-response events, in order
FinalTexts(events) ==
  IF events = <<>> THEN <<>>
  ELSE (IF Head(events).is_final_response = "true"
          THEN PartTexts(Head(events).parts) ELSE <<>>)
         \o FinalTexts(Tail(events))

\* C8: on a success status the text returned is the texts of the parts of
\* the final-response events, in event order then part order, the parts
\* without text skipped, with exactly one space between consecutive texts.
C8_JoinedWithOneSpace ==
  \A c \in Calls :
    (dpc[c] = "returned" /\ WellFormed(response[c])
       /\ "response" \in DOMAIN dresult[c])
    => dresult[c].response = Join(" ", FinalTexts(response[c].events))

\* C9: a specialist that answers with a success status and no final text
\* (no final-response event, none with parts, or parts that all lack text)
\* gets {status: error} with the no-final-text message, never success.
C9_NoFinalTextIsError ==
  \A c \in Calls :
    (dpc[c] = "returned" /\ WellFormed(response[c])
       /\ FinalTexts(response[c].events) = <<>>)
    => dresult[c] = [status |-> "error",
                     message |-> "Remote agent did not return a final text response."]

\* C10: every value call_remote_agent returns is {status: success,
\* response} with a response that is not empty, or {status: error, message}:
\* one of response and message, response exactly when status is success.
C10_OneOfResponseAndMessage ==
  \A c \in Calls :
    /\ dpc[c] = "returned" => (SuccessValue(dresult[c]) \/ ErrorValue(dresult[c]))
    /\ dpc[c] # "returned" => dresult[c] = <<>>

\* One final event with the text "ok" came back and the call returned it.
C10_Witness ==
  \E c \in Calls :
    /\ dpc[c] = "returned"
    /\ response[c].events =
         <<[kind |-> "dict", is_final_response |-> "true", content |-> "parts",
            parts |-> <<"ok">>]>>
    /\ dresult[c] = [status |-> "success", response |-> "ok"]

\* C11: one call_remote_agent invocation issues at most one POST, to the
\* /run endpoint of its specialist, whatever the outcome of the round trip:
\* a call that has started has posted exactly once, a call that has not
\* has posted nothing.
C11_AtMostOnePost ==
  \A c \in Calls :
    /\ posts[c] <= 1
    /\ posts[c] = (IF dpc[c] = "idle" THEN 0 ELSE 1)
    /\ dpc[c] # "idle" => payload[c].url = dargs[c].agent_url \o "/run"

\* The round trip timed out and the call returned its error, having posted
\* once.
C11_Witness ==
  \E c \in Calls :
    /\ dpc[c] = "returned"
    /\ response[c].kind = "ReadTimeout"
    /\ posts[c] = 1

ParentSessionIds == {session[q].key[3] : q \in {p \in Queries : session[p] # NoSession}}

\* C13: the sub-session id a call sends is none of the ids of the sessions
\* of the facade, in particular not that of the invoking turn, and not the
\* sub-session id of another call; the user_id it sends is that of the
\* invoking turn; no row of the store has the sub-session id; and no step
\* of a call changes the store or the session a query holds.
C13_FreshSubSession ==
  /\ [](\A c \in Calls : dpc[c] # "idle" =>
          /\ payload[c].session_id # dargs[c].tool_context.session_id
          /\ payload[c].session_id \notin ParentSessionIds
          /\ \A r \in store : r.key[3] # payload[c].session_id
          /\ \A d \in Calls \ {c} :
               dpc[d] # "idle" => payload[d].session_id # payload[c].session_id
          /\ payload[c].user_id = dargs[c].tool_context.user_id
          /\ payload[c].user_id = ids[dargs[c].tool_context.turn].user_id)
  /\ [][(delegVars' # delegVars) => (store' = store /\ session' = session)]_vars

\* Two calls of one turn: one has returned, the other hangs; their
\* sub-session ids differ from each other and from the turn's session id.
C13_Witness ==
  \E c, d \in Calls :
    /\ dpc[c] = "returned" /\ dpc[d] = "posted"
    /\ dargs[c].tool_context.turn = 1 /\ dargs[d].tool_context.turn = 1
    /\ payload[c].session_id # payload[d].session_id
    /\ session[1].key[3] \notin {payload[c].session_id, payload[d].session_id}

\* C14: under every interleaving, each query holds only the session of its
\* own triple; a row was created by a query of its triple and carries the
\* turns of queries of its triple only; a create cannot collide when no
\* other query has the same session_id; and the success envelope carries
\* the query's own session_id and the text of its own events.
C14_QueriesIndependent ==
  /\ \A r \in store :
       /\ Triple(r.creator) = r.key
       /\ \A i \in 1..Len(r.turns) : Triple(r.turns[i]) = r.key
  /\ \A q \in Queries :
       /\ session[q] # NoSession => session[q].key = Triple(q)
       /\ ( /\ pc[q] = "create"
            /\ \A p \in Queries \ {q} : ids[p].session_id # ids[q].session_id )
          => \A r \in store : r.key # Triple(q)
       /\ Last(trace[q]) = "exhausted" =>
            /\ result[q].session_id = ids[q].session_id
            /\ result[q].response = Concat(Answering(emitted[q]))
            /\ \E r \in store : r.key = Triple(q) /\ Has(r.turns, q)

\* Two queries with distinct session ids overlapped (neither was called
\* after the other had returned) and both returned their own session.
C14_Witness ==
  \E q1, q2 \in Queries :
    /\ ids[q1].session_id # ids[q2].session_id
    /\ Last(trace[q1]) = "exhausted" /\ Last(trace[q2]) = "exhausted"
    /\ q1 \notin doneBefore[q2] /\ q2 \notin doneBefore[q1]
    /\ result[q1].session_id # result[q2].session_id
    /\ Len(result[q1].response) # Len(result[q2].response)

\* C15: at most one Runner is ever constructed, the one the instance
\* holds; a query past its first statement has one; and once the instance
\* holds a Runner no step replaces it.
C15_OneRunner ==
  /\ [](/\ built <= 1
        /\ runner = built
        /\ \A q \in Queries : pc[q] # "idle" => runner # 0)
  /\ [][runner # 0 => runner' = runner]_vars

\* Two queries have run their turns, on the one Runner ever built.
C15_Witness ==
  /\ built = 1 /\ runner = 1
  /\ \E q1, q2 \in Queries :
       q1 # q2 /\ Has(trace[q1], "run_async") /\ Has(trace[q2], "run_async")

\* the session a lookup of the triple finds among these rows
Found(st, key) ==
  IF \E r \in st : r.key = key
    THEN LET r == CHOOSE r \in st : r.key = key
         IN [key |-> r.key, creator |-> r.creator]
    ELSE NoSession

KnownNames ==
  {"nutrition-expert-service", "life-coach-service",
   "community-connector-service"}

\* C17: once the module is imported, specialist_tools holds, in the order
\* of the configured addresses, one tool (the inferred name and the
\* address) for each address whose inferred name is a known name, and
\* nothing else; the import raises only when no address is configured, so
\* an address of an unknown name is skipped without error.
C17_RegistryMatchesConfiguration ==
  /\ mpc = "done" =>
       LET addrs == REMOTE_AGENT_ADDRESSES
           known == {i \in 1..Len(addrs) :
                       agent_name_from_url(addrs[i]) \in KnownNames}
       IN /\ Len(specialist_tools) = Cardinality(known)
          /\ \E f \in [1..Len(specialist_tools) -> known] :
               /\ \A j, k \in 1..Len(specialist_tools) : j < k => f[j] < f[k]
               /\ \A k \in 1..Len(specialist_tools) :
                    specialist_tools[k] =
                      [agent_name |-> agent_name_from_url(addrs[f[k]]),
                       agent_url |-> addrs[f[k]]]
  /\ mpc = "raised" => REMOTE_AGENT_ADDRESSES = <<>>
  /\ mpc \in {"start", "read", "raised"} => specialist_tools = <<>>

\* Two addresses were configured; the first, of an unknown name, was
\* skipped, and the registry holds the tool of the second.
C17_Witness ==
  /\ mpc = "done"
  /\ Len(REMOTE_AGENT_ADDRESSES) = 2
  /\ agent_name_from_url(REMOTE_AGENT_ADDRESSES[1]) \notin KnownNames
  /\ specialist_tools =
       <<[agent_name |-> agent_name_from_url(REMOTE_AGENT_ADDRESSES[2]),
          agent_url |-> REMOTE_AGENT_ADDRESSES[2]]>>

\* C18: the accumulator of query holds, in order, the text of the first
\* part of each final-response event whose first part has a text, and
\* nothing else: a text appears in the response only if it is the first
\* part of a final-response event, and an event whose first part has no
\* text adds nothing, whatever its later parts carry.
C18_FirstPartOnly ==
  \A q \in Queries :
    /\ full_response_parts[q] =
         [i \in 1..Len(Answering(emitted[q])) |->
            Answering(emitted[q])[i].parts[1]]
    /\ Last(trace[q]) = "exhausted" =>
         \A t \in {"A", "B"} :
           Contains(result[q].response, t) =>
             \E i \in 1..Len(emitted[q]) :
               /\ emitted[q][i].final
               /\ emitted[q][i].parts # <<>>
               /\ emitted[q][i].parts[1] = t

\* A final-response event whose first part has no text and whose second
\* part has one was the whole turn, and the response is empty.
C18_Witness ==
  \E q \in Queries :
    /\ Last(trace[q]) = "exhausted"
    /\ Len(emitted[q]) = 1
    /\ emitted[q][1].final
    /\ Len(emitted[q][1].parts) = 2
    /\ ~Truthy(emitted[q][1].parts[1]) /\ Truthy(emitted[q][1].parts[2])
    /\ result[q].response = ""

\* the uuids generated so far
Generated == {Uuid4(n) : n \in 1..uuids}

\* C19: run_async was called only after get_session, on a session the
\* query holds (one it created, if it called create_session), whose row
\* has the query's user_id and carries the turn, no other row does; and
\* the success envelope has the id of that session and that user_id, which
\* are the caller's values when given and generated ones otherwise.
C19_RunsOnResolvedSession ==
  \A q \in Queries :
    /\ Has(trace[q], "run_async") =>
         /\ session[q] # NoSession
         /\ \E i, j \in 1..Len(trace[q]) :
              i < j /\ trace[q][i] = "get_session" /\ trace[q][j] = "run_async"
         /\ Has(trace[q], "create_session") => session[q].creator = q
         /\ \A r \in store :
              Has(r.turns, q) <=> (r.key = session[q].key)
         /\ \E r \in store : r.key = session[q].key
         /\ session[q].key[2] = ids[q].user_id
    /\ Last(trace[q]) = "exhausted" =>
         /\ result[q].session_id = session[q].key[3]
         /\ result[q].user_id = session[q].key[2]
         /\ result[q].user_id =
              (IF Truthy(args[q].user_id) THEN args[q].user_id
               ELSE result[q].user_id)
         /\ ~Truthy(args[q].user_id) => result[q].user_id \in Generated
         /\ result[q].session_id =
              (IF Truthy(args[q].session_id) THEN args[q].session_id
               ELSE result[q].session_id)
         /\ ~Truthy(args[q].session_id) => result[q].session_id \in Generated

\* A query ran its turn on the session another had created, which it got
\* from the store, and returned the session_id and user_id it was given.
C19_Witness ==
  \E q1, q2 \in Queries :
    /\ q1 # q2
    /\ session[q1].creator = q1
    /\ Last(trace[q2]) = "exhausted"
    /\ trace[q2] = <<"get_session", "run_async", "exhausted">>
    /\ result[q2].session_id = args[q2].session_id
    /\ result[q2].user_id = args[q2].user_id
    /\ result[q2].session_id = session[q1].key[3]

====
